---- MODULE Spec2Model ----
(***************************************************************************)
(* The collaborative code-room relay of src/server/routes.ts (lines 16-115):*)
(* a process-wide registry `rooms` from room key to the set of connections *)
(* that joined it, one closure (roomId, userId) per connection, the message *)
(* and close handlers of a connection, and broadcastToRoom.                 *)
(*                                                                         *)
(* Node runs every handler to completion on one thread, so each handler is  *)
(* one atomic action.  A call of send() on a connection is recorded in      *)
(* `sent`, the list of sends made by the handler that ran last, in order.   *)
(* The timestamp field of the outbound messages is the wall clock and is    *)
(* left out of the message records.                                         *)
(***************************************************************************)
EXTENDS Integers, Sequences, FiniteSets, TLC

\* ---------------------------------------------------------------- bounds
\* Connections accepted over the life of the server.
NumConns == 2
\* Join events processed over the life of the server.
MaxJoins == 3

Conns == 1..NumConns

\* ------------------------------------------------------- input alphabets
\* The JavaScript value undefined (a field missing from the parsed JSON).
UNDEFINED == "#undefined"
RoomNames == {"r1", "r2"}
\* data.roomId: a room name, the empty string, or missing.
RoomIdInputs == RoomNames \cup {"", UNDEFINED}
UserIds == {1, 2}
Usernames == {"alice"}
Codes == {"x=1"}
Languages == {"js"}
Texts == {"hi"}

\* ------------------------------------------------- WebSocket readyState
OPEN == 1
CONNECTING == OPEN - 1
CLOSING == OPEN + 1
CLOSED == OPEN + 2

VARIABLES
    rooms,       \* registry: room key -> members in insertion order (a JS Set)
    roomId,      \* per connection: closure variable roomId
    userId,      \* per connection: closure variable userId
    readyState,  \* per connection: ws.readyState (CONNECTING = not yet accepted)
    event,       \* the event the last handler processed
    sent,        \* the send() calls of that handler, in call order
    preRooms,    \* the registry as it was when that handler started
    joins,       \* number of join events processed so far
    joinedRooms, \* per connection: the room keys its join events have named
    firstJoin,   \* per connection: <<roomId, userId>> of its first join, <<>> before
    sendFails,   \* the connections whose send() throws
    escaped      \* whether an exception left the handler that ran last

vars == <<rooms, roomId, userId, readyState, event, sent, preRooms, joins,
          joinedRooms, firstJoin, sendFails, escaped>>

\* ------------------------------------------------------ JavaScript values
\* Tagged values, for the comparisons the code makes between values of
\* different types.
Ws(c) == [tag |-> "object", val |-> c]
Num(n) == [tag |-> "number", val |-> n]
Null == [tag |-> "null", val |-> 0]

\* ToBoolean of a tagged value.
Truthy(v) ==
    \/ v.tag = "object"
    \/ v.tag = "number" /\ v.val # 0

\* The === operator: values of different types are never equal.
StrictEq(a, b) == a.tag = b.tag /\ a.val = b.val

\* Variant of RoomIdTruthy: only a missing roomId counts as falsy.
RoomIdTruthyEmptyString(r) == r # UNDEFINED

\* ToBoolean of the closure variable roomId (a string or undefined).
RoomIdTruthy(r) == r # "" /\ r # UNDEFINED

\* Property-key conversion of rooms[roomId]: undefined becomes "undefined".
Key(r) == IF r = UNDEFINED THEN "undefined" ELSE r

\* ------------------------------------------------------------ Set helpers
InSeq(x, s) == \E i \in 1..Len(s) : s[i] = x

\* Set.prototype.add: appended unless already present.
SetAdd(s, x) == IF InSeq(x, s) THEN s ELSE Append(s, x)

\* Set.prototype.delete.
SetDelete(s, x) == SelectSeq(s, LAMBDA y : y # x)

\* rooms[k] = v, creating the key when it is absent.
Put(rms, k, v) == [j \in DOMAIN rms \cup {k} |-> IF j = k THEN v ELSE rms[j]]

\* delete rooms[k].
Remove(rms, k) == [j \in DOMAIN rms \ {k} |-> rms[j]]

\* ---------------------------------------------------------------- events
NoEvent == [type |-> "none", conn |-> 0, roomId |-> "", userId |-> 0,
            username |-> "", code |-> "", language |-> "", message |-> ""]

Ev(t, c) == [NoEvent EXCEPT !.type = t, !.conn = c]

\* ------------------------------------------------------ outbound messages
\* JSON.stringify leaves out a field whose value is undefined.
UserJoinedMsg(uid, uname) ==
    [type |-> "user_joined", userId |-> uid, username |-> uname]

RoomInfoMsg(rid, count) ==
    IF rid = UNDEFINED
    THEN [type |-> "room_info", userCount |-> count]
    ELSE [type |-> "room_info", roomId |-> rid, userCount |-> count]

CodeUpdateMsg(code, language, uid, uname) ==
    [type |-> "code_update", code |-> code, language |-> language,
     userId |-> uid, username |-> uname]

ChatMsg(text, uid, uname) ==
    [type |-> "chat_message", message |-> text, userId |-> uid, username |-> uname]

UserLeftMsg(uid) == [type |-> "user_left", userId |-> uid]

\* ------------------------------------------------------- broadcastToRoom
\* Whether the forEach callback returns before client.send for this client.
Skipped(client, excludeUserId) ==
    Truthy(excludeUserId) /\ StrictEq(Ws(client), excludeUserId)

\* Variant of Recipients: the readyState test compares with CONNECTING.
RecipientsWrongState(members, rs, excludeUserId) ==
    SelectSeq(members, LAMBDA client :
        rs[client] = CONNECTING /\ ~Skipped(client, excludeUserId))

\* Variant of Recipients: no readyState test.
RecipientsAnyState(members, rs, excludeUserId) ==
    SelectSeq(members, LAMBDA client : ~Skipped(client, excludeUserId))

\* The clients the forEach callback calls send() on, in iteration order.
Recipients(members, rs, excludeUserId) ==
    SelectSeq(members, LAMBDA client :
        rs[client] = OPEN /\ ~Skipped(client, excludeUserId))

\* Variant of BroadcastToRoom: the forEach callback sends the message twice.
BroadcastToRoomTwice(rms, rs, rid, message, excludeUserId) ==
    IF Key(rid) \notin DOMAIN rms
    THEN <<>>
    ELSE LET to == Recipients(rms[Key(rid)], rs, excludeUserId)
         IN [i \in 1..(2 * Len(to)) |-> [to |-> to[(i + 1) \div 2], msg |-> message]]

\* The send() calls of broadcastToRoom(rid, message, excludeUserId).
BroadcastToRoom(rms, rs, rid, message, excludeUserId) ==
    IF Key(rid) \notin DOMAIN rms
    THEN <<>>
    ELSE LET to == Recipients(rms[Key(rid)], rs, excludeUserId)
         IN [i \in 1..Len(to) |-> [to |-> to[i], msg |-> message]]

\* ------------------------------------------------------- throwing sends
\* The index of the first call in calls whose send() throws (Len + 1 if none).
FirstFail(calls, fails) ==
    LET bad == {i \in 1..Len(calls) : calls[i].to \in fails}
    IN IF bad = {} THEN Len(calls) + 1
       ELSE CHOOSE i \in bad : \A j \in bad : i <= j

\* Whether one of the calls throws.
Throws(calls, fails) == FirstFail(calls, fails) <= Len(calls)

\* The calls that returned: nothing in the handlers catches an exception
\* between two sends, so the first throw ends the sequence.
Delivered(calls, fails) == SubSeq(calls, 1, FirstFail(calls, fails) - 1)

\* ------------------------------------------------------------------ Init
\* The state once the server listens, given the connections whose send()
\* will throw.
InitWith(fails) ==
    /\ rooms = <<>>
    /\ roomId = [c \in Conns |-> ""]
    /\ userId = [c \in Conns |-> 0]
    /\ readyState = [c \in Conns |-> CONNECTING]
    /\ event = NoEvent
    /\ sent = <<>>
    /\ preRooms = <<>>
    /\ joins = 0
    /\ joinedRooms = [c \in Conns |-> {}]
    /\ firstJoin = [c \in Conns |-> <<>>]
    /\ sendFails = fails
    /\ escaped = FALSE

\* send() never throws.
Init == InitWith({})

\* The connection can still deliver a message event to its handler.
Receiving(c) == readyState[c] \in {OPEN, CLOSING}

\* wss.on("connection"): a new closure with roomId = "" and userId = 0.
Connect(c) ==
    /\ readyState[c] = CONNECTING
    /\ readyState' = [readyState EXCEPT ![c] = OPEN]
    /\ roomId' = [roomId EXCEPT ![c] = ""]
    /\ userId' = [userId EXCEPT ![c] = 0]
    /\ event' = Ev("connection", c)
    /\ sent' = <<>>
    /\ escaped' = FALSE
    /\ preRooms' = rooms
    /\ UNCHANGED <<rooms, joins, joinedRooms, firstJoin, sendFails>>

\* Variant of JoinRooms: ws is appended even when it is already a member.
JoinRoomsAppend(rms, c, rid) ==
    LET k == Key(rid)
        created == IF k \in DOMAIN rms THEN rms ELSE Put(rms, k, <<>>)
    IN Put(created, k, Append(created[k], c))

\* The registry after the join branch has created the room and added ws.
JoinRooms(rms, c, rid) ==
    LET k == Key(rid)
        created == IF k \in DOMAIN rms THEN rms ELSE Put(rms, k, <<>>)
    IN Put(created, k, SetAdd(created[k], c))

\* Variant of JoinUserCount: the size as it was before the add.
JoinUserCountBeforeAdd(rms, rid) == Len(rms[Key(rid)]) - 1

\* userCount of room_info: rooms[roomId].size after the add.
JoinUserCount(rms, rid) == Len(rms[Key(rid)])

\* Variant of JoinSends: room_info is sent before the user_joined broadcast.
JoinSendsInfoFirst(joined, rs, c, rid, uid, uname) ==
    << [to |-> c, msg |-> RoomInfoMsg(rid, JoinUserCount(joined, rid))] >>
    \o BroadcastToRoom(joined, rs, rid, UserJoinedMsg(uid, uname), Num(uid))

\* The send() calls of the join branch, made after ws was added to the room:
\* the user_joined broadcast, then room_info to the joiner.
JoinSends(joined, rs, c, rid, uid, uname) ==
    BroadcastToRoom(joined, rs, rid, UserJoinedMsg(uid, uname), Num(uid))
    \o << [to |-> c, msg |-> RoomInfoMsg(rid, JoinUserCount(joined, rid))] >>

\* ws.on("message"), data.type === "join".
Join(c, rid, uid, uname) ==
    LET joined == JoinRooms(rooms, c, rid)
    IN /\ Receiving(c)
       /\ joins < MaxJoins
       /\ joins' = joins + 1
       /\ roomId' = [roomId EXCEPT ![c] = rid]
       /\ userId' = [userId EXCEPT ![c] = uid]
       /\ rooms' = joined
       /\ sent' = Delivered(JoinSends(joined, readyState, c, rid, uid, uname),
                            sendFails)
       /\ escaped' = FALSE
       /\ event' = [Ev("join", c) EXCEPT !.roomId = rid, !.userId = uid,
                                         !.username = uname]
       /\ preRooms' = rooms
       /\ joinedRooms' = [joinedRooms EXCEPT ![c] = @ \cup {Key(rid)}]
       /\ firstJoin' = [firstJoin EXCEPT ![c] = IF @ = <<>> THEN <<rid, uid>> ELSE @]
       /\ UNCHANGED <<readyState, sendFails>>

\* ws.on("message"), data.type === "code_update".
\* Variant of CodeUpdate: the broadcast goes to the room data.roomId names.
CodeUpdateToNamedRoom(c, rid, code, language, uid, uname) ==
    /\ Receiving(c)
    /\ sent' = Delivered(
                  BroadcastToRoom(rooms, readyState, rid,
                                  CodeUpdateMsg(code, language, uid, uname),
                                  Num(userId[c])),
                  sendFails)
    /\ escaped' = FALSE
    /\ event' = [Ev("code_update", c) EXCEPT !.roomId = rid, !.code = code,
                                             !.language = language,
                                             !.userId = uid, !.username = uname]
    /\ preRooms' = rooms
    /\ UNCHANGED <<rooms, roomId, userId, readyState, joins, joinedRooms, firstJoin, sendFails>>

\* data.roomId is never read in this branch.
CodeUpdate(c, rid, code, language, uid, uname) ==
    /\ Receiving(c)
    /\ sent' = Delivered(
                  BroadcastToRoom(rooms, readyState, roomId[c],
                                  CodeUpdateMsg(code, language, uid, uname),
                                  Num(userId[c])),
                  sendFails)
    /\ escaped' = FALSE
    /\ event' = [Ev("code_update", c) EXCEPT !.roomId = rid, !.code = code,
                                             !.language = language,
                                             !.userId = uid, !.username = uname]
    /\ preRooms' = rooms
    /\ UNCHANGED <<rooms, roomId, userId, readyState, joins, joinedRooms, firstJoin, sendFails>>

\* Variant of ChatMessage: the room data.roomId names is created when absent.
ChatMessageCreatesRoom(c, rid, text, uid, uname) ==
    /\ Receiving(c)
    /\ rooms' = IF Key(rid) \in DOMAIN rooms THEN rooms ELSE Put(rooms, Key(rid), <<>>)
    /\ sent' = Delivered(
                  BroadcastToRoom(rooms, readyState, roomId[c],
                                  ChatMsg(text, uid, uname), Null),
                  sendFails)
    /\ escaped' = FALSE
    /\ event' = [Ev("chat_message", c) EXCEPT !.roomId = rid, !.message = text,
                                              !.userId = uid, !.username = uname]
    /\ preRooms' = rooms
    /\ UNCHANGED <<roomId, userId, readyState, joins, joinedRooms, firstJoin, sendFails>>

\* ws.on("message"), data.type === "chat_message".
\* data.roomId is never read in this branch.
ChatMessage(c, rid, text, uid, uname) ==
    /\ Receiving(c)
    /\ sent' = Delivered(
                  BroadcastToRoom(rooms, readyState, roomId[c],
                                  ChatMsg(text, uid, uname), Null),
                  sendFails)
    /\ escaped' = FALSE
    /\ event' = [Ev("chat_message", c) EXCEPT !.roomId = rid, !.message = text,
                                              !.userId = uid, !.username = uname]
    /\ preRooms' = rooms
    /\ UNCHANGED <<rooms, roomId, userId, readyState, joins, joinedRooms, firstJoin, sendFails>>

\* Variant of UnknownType: the handler answers the sender with an error
\* message.
UnknownTypeReplies(c) ==
    /\ Receiving(c)
    /\ sent' = << [to |-> c, msg |-> [type |-> "error"]] >>
    /\ escaped' = FALSE
    /\ event' = Ev("unknown", c)
    /\ preRooms' = rooms
    /\ UNCHANGED <<rooms, roomId, userId, readyState, joins, joinedRooms, firstJoin, sendFails>>

\* ws.on("message"), data.type none of the three: no branch is taken.
UnknownType(c) ==
    /\ Receiving(c)
    /\ sent' = <<>>
    /\ escaped' = FALSE
    /\ event' = Ev("unknown", c)
    /\ preRooms' = rooms
    /\ UNCHANGED <<rooms, roomId, userId, readyState, joins, joinedRooms, firstJoin, sendFails>>

\* ws.on("message"), JSON.parse throws: the catch block logs the error.
Undecodable(c) ==
    /\ Receiving(c)
    /\ sent' = <<>>
    /\ escaped' = FALSE
    /\ event' = Ev("undecodable", c)
    /\ preRooms' = rooms
    /\ UNCHANGED <<rooms, roomId, userId, readyState, joins, joinedRooms, firstJoin, sendFails>>

\* The socket starts closing; the close event has not been emitted yet.
SocketClosing(c) ==
    /\ readyState[c] = OPEN
    /\ readyState' = [readyState EXCEPT ![c] = CLOSING]
    /\ sent' = <<>>
    /\ escaped' = FALSE
    /\ event' = Ev("closing", c)
    /\ preRooms' = rooms
    /\ UNCHANGED <<rooms, roomId, userId, joins, joinedRooms, firstJoin, sendFails>>

\* The registry after rooms[roomId].delete(ws) in the close handler.
CloseDeleted(rms, c, rid) ==
    IF RoomIdTruthy(rid) /\ Key(rid) \in DOMAIN rms
    THEN Put(rms, Key(rid), SetDelete(rms[Key(rid)], c))
    ELSE rms

\* Variant of CloseRooms: the empty room is not deleted.
CloseRoomsNoCleanup(rms, c, rid) ==
    IF RoomIdTruthy(rid) /\ Key(rid) \in DOMAIN rms
    THEN Put(rms, Key(rid), SetDelete(rms[Key(rid)], c))
    ELSE rms

\* Variant of CloseRooms: the handler empties the whole registry.
CloseRoomsClearsAll(rms, c, rid) ==
    IF RoomIdTruthy(rid) /\ Key(rid) \in DOMAIN rms THEN <<>> ELSE rms

\* The registry after the close handler has run for connection c.
CloseRooms(rms, c, rid) ==
    IF RoomIdTruthy(rid) /\ Key(rid) \in DOMAIN rms
    THEN LET removed == Put(rms, Key(rid), SetDelete(rms[Key(rid)], c))
         IN IF Len(removed[Key(rid)]) = 0 THEN Remove(removed, Key(rid)) ELSE removed
    ELSE rms

\* The send() calls of the close handler: the user_left broadcast, made
\* after ws was deleted from the room and before the empty room is deleted.
CloseSends(rms, rs, c, rid, uid) ==
    IF RoomIdTruthy(rid) /\ Key(rid) \in DOMAIN rms
    THEN BroadcastToRoom(Put(rms, Key(rid), SetDelete(rms[Key(rid)], c)), rs,
                         rid, UserLeftMsg(uid), Null)
    ELSE <<>>

\* ws.on("close"): readyState is CLOSED when the handler runs.  The handler
\* has no try/catch: a send() that throws in the broadcast leaves the handler
\* before the empty-room cleanup.
Close(c) ==
    LET calls == CloseSends(rooms, readyState', c, roomId[c], userId[c])
    IN /\ Receiving(c)
       /\ readyState' = [readyState EXCEPT ![c] = CLOSED]
       /\ rooms' = IF Throws(calls, sendFails)
                   THEN CloseDeleted(rooms, c, roomId[c])
                   ELSE CloseRooms(rooms, c, roomId[c])
       /\ sent' = Delivered(calls, sendFails)
       /\ escaped' = Throws(calls, sendFails)
       /\ event' = [Ev("close", c) EXCEPT !.roomId = roomId[c], !.userId = userId[c]]
       /\ preRooms' = rooms
       /\ UNCHANGED <<roomId, userId, joins, joinedRooms, firstJoin, sendFails>>

\* One step of the server: any handler of any connection, the join events
\* drawing data.roomId from roomIds.
Step(roomIds) ==
    \/ \E c \in Conns : Connect(c)
    \/ \E c \in Conns, rid \in roomIds, uid \in UserIds, uname \in Usernames :
          Join(c, rid, uid, uname)
    \/ \E c \in Conns, rid \in RoomNames, code \in Codes, language \in Languages,
          uid \in UserIds, uname \in Usernames :
          CodeUpdate(c, rid, code, language, uid, uname)
    \/ \E c \in Conns, rid \in RoomNames, text \in Texts,
          uid \in UserIds, uname \in Usernames :
          ChatMessage(c, rid, text, uid, uname)
    \/ \E c \in Conns : UnknownType(c)
    \/ \E c \in Conns : Undecodable(c)
    \/ \E c \in Conns : SocketClosing(c)
    \/ \E c \in Conns : Close(c)

Next == Step(RoomIdInputs)

\* Every client input, well formed or not.
Spec == Init /\ [][Next]_vars

NextNamed == Step(RoomNames)

\* Clients whose join events always name a room.
SpecNamed == Init /\ [][NextNamed]_vars

\* Any set of connections may have a send() that throws.
InitFail == \E fails \in SUBSET Conns : InitWith(fails)

\* Clients whose join events always name a room, over a transport whose
\* send() may throw.
SpecFail == InitFail /\ [][NextNamed]_vars

\* ============================================================ properties
\* The member set of room key k in registry rms (empty when k is absent).
Members(rms, k) ==
    IF k \in DOMAIN rms THEN {rms[k][i] : i \in 1..Len(rms[k])} ELSE {}

\* The messages of type t that the last handler sent to connection c.
SentOf(c, t) ==
    SelectSeq(sent, LAMBDA s : s.to = c /\ s.msg.type = t)

\* All messages of type t that the last handler sent.
SentType(t) == SelectSeq(sent, LAMBDA s : s.msg.type = t)

\* C1: when connection S sends a code_update, no code_update message
\* produced by that event is sent to S itself.
C1_NoCodeUpdateToSender ==
    event.type = "code_update" => Len(SentOf(event.conn, "code_update")) = 0

\* C2: when S, a member of room R, sends a code_update, every other open
\* connection that is a member of R is sent exactly one code_update
\* message carrying the event's code and language.
C2_CodeUpdateToOthers ==
    event.type = "code_update" =>
        \A R \in RoomNames :
            event.conn \in Members(rooms, R) =>
                \A d \in Members(rooms, R) \ {event.conn} :
                    readyState[d] = OPEN =>
                        /\ Len(SentOf(d, "code_update")) = 1
                        /\ SentOf(d, "code_update")[1].msg.code = event.code
                        /\ SentOf(d, "code_update")[1].msg.language = event.language

\* C3: when S, a member of room R, sends a chat_message, every open
\* connection that is a member of R, S included, is sent exactly one
\* chat_message message carrying the event's text.
C3_ChatToAll ==
    event.type = "chat_message" =>
        \A R \in RoomNames :
            event.conn \in Members(rooms, R) =>
                \A d \in Members(rooms, R) :
                    readyState[d] = OPEN =>
                        /\ Len(SentOf(d, "chat_message")) = 1
                        /\ SentOf(d, "chat_message")[1].msg.message = event.message

\* C4: a join from connection J for room R sends exactly one room_info
\* message, to J and to nobody else; its userCount is the number of members
\* of R after J was added, and its roomId is R (when the event names a room).
C4_RoomInfoToJoiner ==
    event.type = "join" =>
        /\ Len(SentType("room_info")) = 1
        /\ SentType("room_info")[1].to = event.conn
        /\ SentType("room_info")[1].msg.userCount
              = Cardinality(Members(rooms, Key(event.roomId)))
        /\ event.roomId # UNDEFINED =>
              /\ "roomId" \in DOMAIN SentType("room_info")[1].msg
              /\ SentType("room_info")[1].msg.roomId = event.roomId

\* C4 witness: a second connection has joined a room and was told
\* userCount = 2.
C4_Witness ==
    /\ event.type = "join"
    /\ event.roomId \in RoomNames
    /\ Cardinality(Members(preRooms, event.roomId)) = 1
    /\ event.conn \notin Members(preRooms, event.roomId)
    /\ Len(SentOf(event.conn, "room_info")) = 1
    /\ SentOf(event.conn, "room_info")[1].msg.userCount = 2

\* C5: a join from J sends exactly one user_joined message, carrying the
\* userId and username of the join, to each open connection that was a
\* member of the room before the join.
C5_UserJoinedToExisting ==
    event.type = "join" =>
        \A d \in Members(preRooms, Key(event.roomId)) :
            readyState[d] = OPEN =>
                /\ Len(SentOf(d, "user_joined")) = 1
                /\ SentOf(d, "user_joined")[1].msg.userId = event.userId
                /\ SentOf(d, "user_joined")[1].msg.username = event.username

\* C5 witness: a join into a room that already held another, open member,
\* which was sent the user_joined.
C5_Witness ==
    /\ event.type = "join"
    /\ \E d \in Members(preRooms, Key(event.roomId)) \ {event.conn} :
          /\ readyState[d] = OPEN
          /\ Len(SentOf(d, "user_joined")) = 1

\* C6: the user_joined message of a join is never sent to the joining
\* connection: the joiner receives room_info and no user_joined.
C6_NoUserJoinedToJoiner ==
    event.type = "join" =>
        /\ Len(SentOf(event.conn, "user_joined")) = 0
        /\ Len(SentOf(event.conn, "room_info")) = 1

\* C7: when member B of room R closes and R still has a member afterwards,
\* each remaining open member of R is sent exactly one user_left message
\* carrying B's userId, and B is sent nothing.
C7_UserLeftToRemaining ==
    event.type = "close" =>
        \A R \in RoomNames :
            (event.conn \in Members(preRooms, R) /\ Members(rooms, R) # {}) =>
                /\ \A d \in Members(rooms, R) :
                      readyState[d] = OPEN =>
                          /\ Len(SentOf(d, "user_left")) = 1
                          /\ SentOf(d, "user_left")[1].msg.userId = event.userId
                /\ \A i \in 1..Len(sent) : sent[i].to # event.conn

\* C8: when the last member of room R closes, no message is sent and the key
\* R is absent from the registry when the close handler has finished; a join
\* for a room whose key is absent is answered with userCount = 1.
C8_LastMemberClose ==
    /\ event.type = "close" =>
          \A R \in RoomNames :
              Members(preRooms, R) = {event.conn} =>
                  sent = <<>> /\ R \notin DOMAIN rooms
    /\ (event.type = "join" /\ Key(event.roomId) \notin DOMAIN preRooms) =>
          /\ Len(SentOf(event.conn, "room_info")) = 1
          /\ SentOf(event.conn, "room_info")[1].msg.userCount = 1

\* C9: after every handler, the registry holds no room whose member set is
\* empty.
C9_NoEmptyRoom ==
    \A k \in DOMAIN rooms : Len(rooms[k]) > 0

\* C9 witness: the close of a room's only member has removed the room's key.
C9_Witness ==
    /\ event.type = "close"
    /\ Key(event.roomId) \in DOMAIN preRooms
    /\ Members(preRooms, Key(event.roomId)) = {event.conn}
    /\ Key(event.roomId) \notin DOMAIN rooms

\* C10: in every reachable state each connection is an element of at most
\* one room's member set.
C10_AtMostOneRoom ==
    \A c \in Conns :
        Cardinality({k \in DOMAIN rooms : c \in Members(rooms, k)}) <= 1

\* The connections that sent a join naming room key k and have not closed.
LiveJoiners(k) ==
    {c \in Conns : k \in joinedRooms[c] /\ readyState[c] # CLOSED}

\* C11: for every sequence of joins and closes, the size of each room's
\* member set equals the number of connections that joined the room and
\* have not closed, and the room is absent exactly when that number is zero.
C11_MemberCount ==
    \A R \in RoomNames :
        /\ Cardinality(Members(rooms, R)) = Cardinality(LiveJoiners(R))
        /\ (R \notin DOMAIN rooms) <=> (LiveJoiners(R) = {})

\* C12: once the close event of a connection has been processed, the
\* connection is an element of no room's member set.
C12_ClosedInNoRoom ==
    \A c \in Conns :
        readyState[c] = CLOSED => \A k \in DOMAIN rooms : c \notin Members(rooms, k)

\* C13: the close of a connection that never joined a room changes nothing
\* in the registry, sends nothing and raises no error.
C13_CloseWithoutJoin ==
    (event.type = "close" /\ joinedRooms[event.conn] = {}) =>
        /\ rooms = preRooms
        /\ sent = <<>>
        /\ ~escaped

\* C13 witness: a connection that never joined has closed while the
\* registry held a room.
C13_Witness ==
    /\ event.type = "close"
    /\ joinedRooms[event.conn] = {}
    /\ DOMAIN rooms # {}

\* C14: a message whose type is none of join, code_update, chat_message
\* sends nothing, raises no error, leaves the registry unchanged and leaves
\* the connection receiving.
C14_UnknownTypeDropped ==
    event.type = "unknown" =>
        /\ sent = <<>>
        /\ ~escaped
        /\ rooms = preRooms
        /\ Receiving(event.conn)

\* C14 witness: a member of a room with another open member has sent a
\* message of unknown type.
C14_Witness ==
    /\ event.type = "unknown"
    /\ \E k \in DOMAIN rooms :
          /\ event.conn \in Members(rooms, k)
          /\ \E d \in Members(rooms, k) \ {event.conn} : readyState[d] = OPEN

\* C15: a code_update or chat_message from a connection that has not joined
\* any room sends nothing, raises no error and leaves the registry unchanged.
C15_UpdateWithoutJoin ==
    (event.type \in {"code_update", "chat_message"} /\ joinedRooms[event.conn] = {}) =>
        /\ sent = <<>>
        /\ ~escaped
        /\ rooms = preRooms

\* C16: a join that carries no room identifier (missing or empty) adds no
\* room and no member, and a closed connection is a member of no room
\* created by such a join.
C16_JoinWithoutRoomDropped ==
    /\ (event.type = "join" /\ ~RoomIdTruthy(event.roomId)) => rooms = preRooms
    /\ \A c \in Conns :
          readyState[c] = CLOSED =>
              c \notin (Members(rooms, Key("")) \cup Members(rooms, Key(UNDEFINED)))

\* The message type a handler broadcasts.
BroadcastType ==
    CASE event.type = "join" -> "user_joined"
      [] event.type = "close" -> "user_left"
      [] OTHER -> event.type

\* The connections a broadcast of the last handler is meant for: the members
\* of the handler's room, without the originator for user_joined,
\* code_update and user_left.
Targets ==
    IF event.type = "chat_message"
    THEN Members(rooms, Key(roomId[event.conn]))
    ELSE Members(rooms, Key(roomId[event.conn])) \ {event.conn}

\* C17: a send that throws for one recipient of a broadcast does not keep
\* the message from the other open target members (stated for the
\* broadcasts in which every member whose send throws is a target).
C17_FailureIsolated ==
    (/\ event.type \in {"join", "code_update", "chat_message", "close"}
     /\ Members(rooms, Key(roomId[event.conn])) \cap sendFails \subseteq Targets) =>
        \A d \in Targets :
            (readyState[d] = OPEN /\ d \notin sendFails) =>
                Len(SentOf(d, BroadcastType)) = 1

\* C18: no handler lets an error escape, also when a send fails, and the
\* close handler leaves the closing connection out of its room and no
\* empty room behind.
C18_NoErrorEscapes ==
    /\ ~escaped
    /\ (event.type = "close" /\ RoomIdTruthy(event.roomId)) =>
          /\ event.conn \notin Members(rooms, Key(event.roomId))
          /\ Key(event.roomId) \in DOMAIN rooms => Len(rooms[Key(event.roomId)]) > 0

C20_ForeignRoomIgnored ==
    (/\ event.type \in {"code_update", "chat_message"}
     /\ event.conn \notin Members(rooms, Key(event.roomId))) =>
        sent = <<>>

\* C20 as amended: the roomId field of a code_update or chat_message is not
\* read.  Whatever room it names, the event is relayed to the room of the
\* sender's last join: every message goes to an open member of that room,
\* at most once, and none to a connection outside it.
C20_RoomFieldNotRead ==
    event.type \in {"code_update", "chat_message"} =>
        /\ \A i \in 1..Len(sent) :
              /\ sent[i].to \in Members(rooms, Key(roomId[event.conn]))
              /\ readyState[sent[i].to] = OPEN
              /\ sent[i].msg.type = event.type
        /\ \A d \in Conns : Len(SentOf(d, event.type)) <= 1

\* C20 witness: a code_update naming a room the sender is not in was sent
\* to the other member of the sender's own room.
C20_Witness ==
    /\ event.type = "code_update"
    /\ event.roomId # roomId[event.conn]
    /\ event.conn \notin Members(rooms, Key(event.roomId))
    /\ \E d \in Members(rooms, Key(roomId[event.conn])) \ {event.conn} :
          Len(SentOf(d, "code_update")) = 1

\* The room keys whose member set in registry rms contains connection c.
RoomsOf(rms, c) == {k \in DOMAIN rms : c \in Members(rms, k)}

\* C21: a join by a connection for the room it is already a member of leaves
\* the registry as it was (same member set, same size), room_info reports
\* the unchanged member count, and a connection all of whose joins named
\* this room is in exactly this one room.
C21_DoubleJoinIdempotent ==
    (event.type = "join" /\ event.conn \in Members(preRooms, Key(event.roomId))) =>
        /\ rooms = preRooms
        /\ Len(SentType("room_info")) = 1
        /\ \A i \in 1..Len(sent) :
              sent[i].msg.type = "room_info" =>
                  /\ sent[i].to = event.conn
                  /\ sent[i].msg.userCount = Len(preRooms[Key(event.roomId)])
        /\ joinedRooms[event.conn] = {Key(event.roomId)} =>
              RoomsOf(rooms, event.conn) = {Key(event.roomId)}

\* C21 witness: a connection has joined again the room it shares with
\* another member.
C21_Witness ==
    /\ event.type = "join"
    /\ event.conn \in Members(preRooms, Key(event.roomId))
    /\ Len(preRooms[Key(event.roomId)]) = 2
    /\ Len(SentType("room_info")) = 1

\* C22: when two open connections that joined with the same userId are
\* members of the sender's room, a code_update of one of them is sent to the
\* other and not to the sending connection.
C22_ExclusionByConnection ==
    event.type = "code_update" =>
        \A d \in Members(rooms, Key(roomId[event.conn])) \ {event.conn} :
            (/\ event.conn \in Members(rooms, Key(roomId[event.conn]))
             /\ userId[d] = userId[event.conn]
             /\ readyState[d] = OPEN
             /\ readyState[event.conn] = OPEN) =>
                /\ Len(SentOf(d, "code_update")) = 1
                /\ Len(SentOf(event.conn, "code_update")) = 0

\* C23: the userId of the user_left message emitted when a connection closes
\* is the userId of its first join, and the closed connection is no longer
\* in the room of its first join, whatever joins followed the first.
C23_IdentityFixedAtFirstJoin ==
    (event.type = "close" /\ firstJoin[event.conn] # <<>>) =>
        /\ \A i \in 1..Len(sent) :
              sent[i].msg.type = "user_left" =>
                  sent[i].msg.userId = firstJoin[event.conn][2]
        /\ event.roomId = firstJoin[event.conn][1]
        /\ event.conn \notin Members(rooms, Key(firstJoin[event.conn][1]))

\* C24: the userId carried by every code_update and chat_message message is
\* the userId the sending connection registered at its join.
C24_AttributedToSender ==
    event.type \in {"code_update", "chat_message"} =>
        \A i \in 1..Len(sent) : sent[i].msg.userId = userId[event.conn]

\* C25: within one join, every user_joined message is sent before the
\* room_info message, and the joiner is in the member set when they are
\* sent: it is a member after the handler and userCount counts it.
C25_UserJoinedBeforeRoomInfo ==
    event.type = "join" =>
        /\ \A i, j \in 1..Len(sent) :
              (sent[i].msg.type = "user_joined" /\ sent[j].msg.type = "room_info") => i < j
        /\ event.conn \in Members(rooms, Key(event.roomId))
        /\ \A j \in 1..Len(sent) :
              sent[j].msg.type = "room_info" =>
                  sent[j].msg.userCount =
                      Cardinality(Members(preRooms, Key(event.roomId)) \cup {event.conn})

\* C25 witness: a join sent user_joined to another member and then
\* room_info to the joiner.
C25_Witness ==
    /\ event.type = "join"
    /\ \E i, j \in 1..Len(sent) :
          /\ i < j
          /\ sent[i].msg.type = "user_joined"
          /\ sent[i].to # event.conn
          /\ sent[j].msg.type = "room_info"
          /\ sent[j].to = event.conn

\* C26: no message is sent to a connection whose close event has been
\* processed: every send of a handler goes to a connection that is not
\* CLOSED when the handler runs.
C26_NoSendAfterClose ==
    \A i \in 1..Len(sent) : readyState[sent[i].to] # CLOSED

\* C26 witness: a handler sent a message while the member set of its room
\* held a connection whose close had been processed.
C26_Witness ==
    /\ event.type \in {"join", "code_update", "chat_message"}
    /\ sent # <<>>
    /\ \E d \in Members(rooms, Key(roomId[event.conn])) : readyState[d] = CLOSED

\* C27: once every connection that sent a join has closed, the registry
\* holds no room.
C27_EmptyAfterAllClosed ==
    (\A c \in Conns : joinedRooms[c] # {} => readyState[c] = CLOSED) =>
        DOMAIN rooms = {}

\* C28: a user_joined, code_update, chat_message or user_left message caused
\* by an event of connection S goes only to members of a room S joined, and
\* never to a connection that did not join that room.
C28_RoomIsolation ==
    \A i \in 1..Len(sent) :
        sent[i].msg.type \in {"user_joined", "code_update", "chat_message", "user_left"} =>
            /\ Key(roomId[event.conn]) \in joinedRooms[event.conn]
            /\ sent[i].to \in Members(preRooms, Key(roomId[event.conn]))
                              \cup Members(rooms, Key(roomId[event.conn]))
            /\ Key(roomId[event.conn]) \in joinedRooms[sent[i].to]

\* C29: a code_update or chat_message leaves the registry as it was; the
\* registry changes only in a join or a close.
C29_RelayLeavesRegistry ==
    /\ event.type \in {"code_update", "chat_message"} => rooms = preRooms
    /\ rooms # preRooms => event.type \in {"join", "close"}

\* C29 witness: a chat_message was relayed to two members.
C29_Witness ==
    /\ event.type = "chat_message"
    /\ Len(sent) = 2
    /\ DOMAIN rooms # {}

\* C30: a join changes only the entry of the room it names and a close only
\* the entry of the closing connection's room: every other room's member
\* set, and the membership of every other connection, is as before.
C30_FrameOfJoinAndClose ==
    event.type \in {"join", "close"} =>
        /\ \A k \in (DOMAIN rooms \cup DOMAIN preRooms) \ {Key(event.roomId)} :
              /\ k \in DOMAIN rooms
              /\ k \in DOMAIN preRooms
              /\ rooms[k] = preRooms[k]
        /\ \A d \in Conns \ {event.conn} : RoomsOf(rooms, d) = RoomsOf(preRooms, d)

\* C30 witness: a connection closed and its room was deleted while another
\* room with another member stayed.
C30_Witness ==
    /\ event.type = "close"
    /\ Key(event.roomId) \in DOMAIN preRooms
    /\ Key(event.roomId) \notin DOMAIN rooms
    /\ \E k \in DOMAIN rooms : \E d \in Members(rooms, k) : d # event.conn
====
